---- MODULE Spec2Model ----
(***************************************************************************)
(* A model of cargo-deb's strip_binaries (src/lib.rs): the parallel        *)
(* per-asset strip / split-debug-info pipeline over the built binaries of  *)
(* a package, with the file system, the external tools and the listener    *)
(* as its environment.                                                     *)
(*                                                                         *)
(* Paths are records [dir, name]: dir is the sequence of directory         *)
(* components, name is the file name split at its dots ("app.tmp0-stripped"*)
(* is <<"app", "tmp0-stripped">>), so that file_stem, with_file_name and   *)
(* the format! calls are computed segment by segment as the code does.     *)
(* A path without a file name (it ends in "..") has name = <<>>.           *)
(***************************************************************************)
EXTENDS Integers, Sequences, FiniteSets, TLC

\* Bounds of the model.
MaxAssets == 2      \* longest resolved asset list drawn by Init
MaxRuns == 2        \* calls of strip_binaries on the same Config
MaxIdLen == 3       \* longest build identifier handed to the identity reader

VARIABLES
    debug_symbols,  \* options.debug_symbols
    target,         \* the target argument: None or Some(name)
    resolved,       \* options.deb.assets.resolved
    fs,             \* the paths that exist on disk
    disk_content,   \* what the ELF parser finds in the files of the build
    phase,          \* "idle" (outside strip_binaries) or "running"
    pc,             \* per enumerate index: where that asset's closure is
    local,          \* per enumerate index: the closure's locals
    events,         \* per enumerate index: what the closure did, in order
    saved_error,    \* the error rayon's collect keeps
    result,         \* what the last call returned
    runs,           \* calls started so far
    pre             \* resolved as it was when the running call started

vars == <<debug_symbols, target, resolved, fs, disk_content, phase, pc, local, events,
          saved_error, result, runs, pre>>

----------------------------------------------------------------------------
\* Option

None == [kind |-> "None"]
Some(v) == [kind |-> "Some", val |-> v]

----------------------------------------------------------------------------
\* Paths

MkPath(dir, name) == [dir |-> dir, name |-> name]

\* options.default_deb_output_dir()
default_deb_output_dir == <<"target", "debian">>

\* Path::file_name
file_name(path) == IF Len(path.name) = 0 THEN None ELSE Some([name |-> path.name])

\* Path::file_stem: the file name up to its last dot; the whole name when it
\* has no dot or only a leading one; None when there is no file name.
file_stem(path) ==
    LET n == Len(path.name) IN
    IF n = 0 THEN None
    ELSE IF n = 1 THEN Some([name |-> path.name])
    ELSE IF n = 2 /\ path.name[1] = "" THEN Some([name |-> path.name])
    ELSE Some([name |-> SubSeq(path.name, 1, n - 1)])

\* Path::with_file_name
with_file_name_kept(path, name) == path

with_file_name(path, name) == MkPath(path.dir, name)

\* Path::parent
parent(path) == Some([dir |-> path.dir])

\* Path::exists
exists_always(path, disk) == TRUE

exists(path, disk) == path \in disk

\* stripped_binaries_output_dir.join(format!("{file_name}.tmp{i}-stripped"))
stripped_temp_path_no_index(stem, i) ==
    MkPath(default_deb_output_dir, Append(stem, "tmp-stripped"))

stripped_temp_path(stem, i) ==
    MkPath(default_deb_output_dir,
           Append(stem, "tmp" \o ToString(i) \o "-stripped"))

----------------------------------------------------------------------------
\* Assets

\* AssetSource::Path, AssetSource::Symlink, AssetSource::Data
SourcePath(p) == [kind |-> "Path", path |-> p]
SourceSymlink(p) == [kind |-> "Symlink", path |-> p]
SourceData == [kind |-> "Data"]

\* AssetSource::archive_as_symlink_only
archive_as_symlink_only(source) == source.kind = "Symlink"

\* AssetSource::path: the path of a file-backed source
path(source) == IF source.kind = "Data" THEN None ELSE Some(source.path)

\* AssetSource::into_path
into_path(source) == path(source)

\* Asset::new: a fresh asset carries no provenance
NewAsset(source, target_path, chmod, is_built) ==
    [source |-> source, target_path |-> target_path, chmod |-> chmod,
     is_built |-> is_built, processed_from |-> None]

\* Asset::processed
processed(asset, action, original_path) ==
    [asset EXCEPT !.processed_from =
        Some([original_path |-> Some(original_path), action |-> action])]

\* AssetCommon::default_debug_target_path: the install path under
\* usr/lib/debug with ".debug" appended
default_debug_target_path(asset) ==
    MkPath(<<"usr", "lib", "debug">> \o asset.target_path.dir,
           Append(asset.target_path.name, "debug"))

\* The positions in resolved of the built assets, in order.
RECURSIVE BuiltPositions(_, _)
BuiltPositions(assets, k) ==
    IF k > Len(assets) THEN <<>>
    ELSE IF assets[k].is_built THEN <<k>> \o BuiltPositions(assets, k + 1)
    ELSE BuiltPositions(assets, k + 1)

\* Package::built_binaries_mut, as positions in resolved; enumerate() numbers
\* them from 0, so index i is position built_binaries_mut(assets)[i + 1].
built_binaries_mut(assets) == BuiltPositions(assets, 1)

Indices(assets) == 0 .. (Len(built_binaries_mut(assets)) - 1)
PosOf(assets, i) == built_binaries_mut(assets)[i + 1]
AssetAt(assets, i) == assets[PosOf(assets, i)]

----------------------------------------------------------------------------
\* The identity reader

HexDigit == <<"0", "1", "2", "3", "4", "5", "6", "7",
              "8", "9", "a", "b", "c", "d", "e", "f">>

\* format!("{b:02x}")
Hex02Unpadded(b) ==
    IF b < 16 THEN HexDigit[b + 1]
    ELSE HexDigit[(b \div 16) + 1] \o HexDigit[(b % 16) + 1]

Hex02(b) == HexDigit[(b \div 16) + 1] \o HexDigit[(b % 16) + 1]

\* for b in rest { write!(&mut s, "{b:02x}") }
RECURSIVE HexAll(_)
HexAll(bytes) ==
    IF Len(bytes) = 0 THEN "" ELSE Hex02(Head(bytes)) \o HexAll(Tail(bytes))

\* What a file holds, as far as the ELF parser is concerned: a build-id note
\* with its bytes, an ELF file without the .note.gnu.build-id section, or
\* something the parser rejects.
ElfBuildId(bytes) == [kind |-> "BuildId", bytes |-> bytes]
ElfNoSection == [kind |-> "NoSection"]
ElfUnparsable == [kind |-> "Unparsable"]

\* elf_gnu_debug_id (feature "debug-id") on a file with the given content:
\* Ok(Some(path)), Ok(None) or Err(parse error)
elf_gnu_debug_id(content) ==
    IF content.kind = "Unparsable" THEN [kind |-> "Err"]
    ELSE IF content.kind = "NoSection" THEN [kind |-> "Ok", val |-> None]
    ELSE IF Len(content.bytes) = 0 THEN [kind |-> "Ok", val |-> None]
    ELSE [kind |-> "Ok", val |-> Some(
            MkPath(<<"usr", "lib", "debug", ".build-id", Hex02(Head(content.bytes))>>,
                   <<HexAll(Tail(content.bytes)), "debug">>))]

\* get_target_debug_path
get_target_debug_path_no_fallback(asset, content) ==
    LET r == elf_gnu_debug_id(content) IN
    IF r.kind = "Ok" /\ r.val.kind = "Some" THEN r.val.val
    ELSE MkPath(<<>>, <<>>)

get_target_debug_path(asset, content) ==
    LET r == elf_gnu_debug_id(content) IN
    IF r.kind = "Ok" /\ r.val.kind = "Some" THEN r.val.val
    ELSE default_debug_target_path(asset)

----------------------------------------------------------------------------
\* Errors

\* io::Error of a process that could not be started, and of ensure_success
IoSpawnError == [kind |-> "NotFound"]
IoExitError == [kind |-> "Other", text |-> "exit status: 1"]

\* ensure_success
ensure_success_always(status_ok) == None

ensure_success(status_ok) == IF status_ok THEN None ELSE Some(IoExitError)

StripFailedOnOutput(p, msg) ==
    [kind |-> "StripFailed",
     path |-> IF "missing" \in DOMAIN msg THEN msg.missing ELSE p,
     msg |-> msg]

StripFailed(p, msg) == [kind |-> "StripFailed", path |-> p, msg |-> msg]
CommandFailed(err, tool) == [kind |-> "CommandFailed", err |-> err, tool |-> tool]
StrError(text) == [kind |-> "Str", text |-> text]

\* the map_err closure of the strip and the extract invocation: the message
\* format!("{cmd}: {err}.\nhint: ... [target.{target}] {tool} = ...") is kept
\* as the values it interpolates
ToolErrorAlwaysCommandFailed(p, err, cmd, tgt) == CommandFailed(err, cmd)

ToolError(p, err, cmd, tgt) ==
    IF tgt.kind = "Some"
    THEN StripFailed(p, [cmd |-> cmd, err |-> err, target |-> tgt.val.name])
    ELSE CommandFailed(err, cmd)

----------------------------------------------------------------------------
\* The inputs Init draws from

TargetTriple == [name |-> "aarch64-unknown-linux-gnu"]

BuiltApp == MkPath(<<"target", "release">>, <<"app">>)
OtherApp == MkPath(<<"target", "other">>, <<"app", "bin">>)
Gone == MkPath(<<"target", "release">>, <<"gone">>)
DotDot == MkPath(<<"target", "release", "..">>, <<>>)
Readme == MkPath(<<>>, <<"README", "md">>)

\* What the two binaries on disk can hold.
DiskImages ==
    { [p \in {BuiltApp, OtherApp} |->
          IF p = BuiltApp THEN ElfBuildId(<<171, 205, 239>>) ELSE ElfNoSection],
      [p \in {BuiltApp, OtherApp} |->
          IF p = BuiltApp THEN ElfNoSection ELSE ElfUnparsable] }

\* What the parser finds at path p on a disk: a file that is missing
\* (File::open fails) or is no object file gives a parse error.
Read(held, disk, p) ==
    IF p \in disk /\ p \in DOMAIN held THEN held[p] ELSE ElfUnparsable

ContentOf(p) == Read(disk_content, fs, p)

\* The disk after a tool wrote file p: strip keeps the .note.gnu.build-id
\* section of its input.
Written(p, c) ==
    [q \in (DOMAIN disk_content) \cup {p} |-> IF q = p THEN c ELSE disk_content[q]]

AssetPool ==
    { NewAsset(SourcePath(BuiltApp), MkPath(<<"usr", "bin">>, <<"app">>), 493, TRUE),
      NewAsset(SourcePath(OtherApp), MkPath(<<"usr", "sbin">>, <<"app">>), 493, TRUE),
      NewAsset(SourcePath(Gone), MkPath(<<"usr", "bin">>, <<"gone">>), 493, TRUE),
      NewAsset(SourcePath(DotDot), MkPath(<<"usr", "lib">>, <<"rel">>), 493, TRUE),
      NewAsset(SourceSymlink(BuiltApp), MkPath(<<"usr", "bin">>, <<"applink">>), 493, TRUE),
      NewAsset(SourceData, MkPath(<<"usr", "share", "app">>, <<"generated">>), 420, TRUE),
      NewAsset(SourcePath(Readme), MkPath(<<"usr", "share", "doc", "app">>, <<"README", "md">>), 420, FALSE) }

\* Asset lists of up to MaxAssets assets, no asset listed twice.
AssetLists ==
    UNION { { l \in [1 .. n -> AssetPool] :
                \A a, b \in 1 .. n : a # b => l[a] # l[b] } : n \in 1 .. MaxAssets }

Policies ==
    { [kind |-> "Keep"], [kind |-> "Strip"],
      [kind |-> "Separate", compress |-> FALSE],
      [kind |-> "Separate", compress |-> TRUE] }

NoLocals ==
    [path |-> None, stripped |-> None, debug_target |-> None,
     debug_temp |-> None, out |-> None, err |-> None]

Init ==
    /\ debug_symbols \in Policies
    /\ target \in {None, Some(TargetTriple)}
    /\ resolved \in AssetLists
    /\ fs = {BuiltApp, OtherApp, DotDot, Readme}
    /\ disk_content \in DiskImages
    /\ phase = "idle"
    /\ pc = [i \in {} |-> "ready"]
    /\ local = [i \in {} |-> NoLocals]
    /\ events = [i \in {} |-> <<>>]
    /\ saved_error = None
    /\ result = None
    /\ runs = 0
    /\ pre = resolved

----------------------------------------------------------------------------
\* strip_binaries

\* let (separate_debug_symbols, compress_debug_symbols) = match ...
separate_always == TRUE

separate_debug_symbols == debug_symbols.kind = "Separate"
compress_debug_symbols == debug_symbols.kind = "Separate" /\ debug_symbols.compress

\* the .filter() of the parallel iterator
FilteredNever(asset) == FALSE

Filtered(asset) == archive_as_symlink_only(asset.source)

\* Entry: the parallel iterator over the enumerated built binaries is set up.
\* A caller that got Err gives up the package, so only a Config whose last
\* call succeeded is passed in again.
Start ==
    /\ phase = "idle"
    /\ runs < MaxRuns
    /\ result.kind # "Err"
    /\ phase' = "running"
    /\ runs' = runs + 1
    /\ pre' = resolved
    /\ pc' = [i \in Indices(resolved) |->
                IF Filtered(AssetAt(resolved, i)) THEN "filtered" ELSE "ready"]
    /\ local' = [i \in Indices(resolved) |-> NoLocals]
    /\ events' = [i \in Indices(resolved) |-> <<>>]
    /\ saved_error' = None
    /\ result' = None
    /\ UNCHANGED <<debug_symbols, target, disk_content, resolved, fs>>

\* return Err(..) / the ? operator inside the closure; collect keeps the
\* first error it is handed
FailDropsError(i, e) ==
    /\ pc' = [pc EXCEPT ![i] = "failed"]
    /\ local' = [local EXCEPT ![i].err = Some(e)]
    /\ saved_error' = saved_error

Fail(i, e) ==
    /\ pc' = [pc EXCEPT ![i] = "failed"]
    /\ local' = [local EXCEPT ![i].err = Some(e)]
    /\ saved_error' = IF saved_error = None THEN Some(e) ELSE saved_error

Did(i, evs) == events' = [events EXCEPT ![i] = @ \o evs]

\* mem::replace(&mut asset.source, new_source) and the ProcessedFrom record
ReplaceSourceNoProvenance(assets, i, new_source) ==
    [assets EXCEPT ![PosOf(assets, i)] = [@ EXCEPT !.source = new_source]]

ReplaceSource(assets, i, new_source) ==
    LET old_source == AssetAt(assets, i).source IN
    [assets EXCEPT ![PosOf(assets, i)] =
        [@ EXCEPT !.source = new_source,
                  !.processed_from =
                      Some([original_path |-> into_path(old_source),
                            action |-> "strip"])]]

\* The closure up to the strip invocation: the source match, the existence
\* check, the temp path, the best-effort delete, and the spawn of strip.
WorkerBegin(i) ==
    /\ phase = "running"
    /\ pc[i] = "ready"
    /\ LET asset == AssetAt(resolved, i)
           p == path(asset.source)
       IN IF p.kind = "None"
          THEN /\ Did(i, <<[op |-> "warning", text |-> "Found built asset with non-path source"]>>)
               /\ pc' = [pc EXCEPT ![i] = "done"]
               /\ UNCHANGED <<local, saved_error, fs>>
          ELSE IF ~exists(p.val, fs)
          THEN /\ Fail(i, StripFailed(p.val, [text |-> "The file doesn't exist"]))
               /\ UNCHANGED <<events, fs>>
          ELSE IF file_stem(p.val).kind = "None"
          THEN /\ Fail(i, StrError("bad path"))
               /\ UNCHANGED <<events, fs>>
          ELSE LET tmp == stripped_temp_path(file_stem(p.val).val.name, i) IN
               /\ fs' = fs \ {tmp}
               /\ Did(i, <<[op |-> "remove_file", path |-> tmp],
                           [op |-> "strip",
                            args |-> <<"--strip-unneeded", "--remove-section=.comment",
                                       "--remove-section=.note", "-o">>,
                            out |-> tmp, input |-> p.val]>>)
               /\ local' = [local EXCEPT ![i].path = p, ![i].stripped = Some(tmp)]
               /\ pc' = [pc EXCEPT ![i] = "strip"]
               /\ UNCHANGED saved_error
    /\ UNCHANGED <<debug_symbols, target, disk_content, resolved, phase, result, runs, pre>>

\* listener.info(format!("Stripped '{}'", path.display()))
InfoStrippedAsWarning(p) == [op |-> "warning", text |-> "Stripped", path |-> p]

InfoStripped(p) == [op |-> "info", text |-> "Stripped", path |-> p]

\* let mut args = &["--only-keep-debug", "--compress-debug-sections=zstd"];
\* if !compress_debug_symbols { args = &args[..1]; }
ExtractArgsAlwaysCompress(compress) ==
    <<"--only-keep-debug", "--compress-debug-sections=zstd">>

ExtractArgs(compress) ==
    IF compress THEN <<"--only-keep-debug", "--compress-debug-sections=zstd">>
    ELSE <<"--only-keep-debug">>

\* How a spawned tool can end: it could not be started, it exited non-zero,
\* or it exited zero.
ToolOutcomes == {"spawn_error", "exit_nonzero", "exit_zero"}

\* .status().and_then(ensure_success): None on success, else the io::Error
StatusErrorIgnored(outcome) == None

StatusError(outcome) ==
    IF outcome = "spawn_error" THEN Some(IoSpawnError)
    ELSE ensure_success(outcome = "exit_zero")

\* What the closure sees when a tool it spawned is back: the tool, how it
\* ended and, for strip, whether its -o file is on disk.
ToolReturned(tool, outcome, wrote) ==
    [op |-> "returned", tool |-> tool, outcome |-> outcome, wrote |-> wrote]

\* The strip invocation returns; on success the closure goes on to the
\* output check and, when debug symbols are separated, to the debug path,
\* the second best-effort delete and the spawn of the extracting objcopy.
StripReturn(i) ==
    /\ phase = "running"
    /\ pc[i] = "strip"
    /\ \E outcome \in ToolOutcomes, created \in BOOLEAN :
        LET asset == AssetAt(resolved, i)
            p == local[i].path.val
            tmp == local[i].stripped.val
            err == StatusError(outcome)
            disk == IF outcome = "exit_zero" /\ created THEN fs \cup {tmp} ELSE fs
            held == IF outcome = "exit_zero" /\ created
                    THEN Written(tmp, ContentOf(p))
                    ELSE disk_content
            back == ToolReturned("strip", outcome, tmp \in disk)
            found == elf_gnu_debug_id(Read(held, disk, p))
        IN
        /\ (outcome # "exit_zero") => ~created
        /\ disk_content' = held
        /\ IF err.kind = "Some"
           THEN /\ Fail(i, ToolError(p, err.val, "strip", target))
                /\ Did(i, <<back>>)
                /\ UNCHANGED <<fs, resolved>>
           ELSE IF ~exists(tmp, disk)
           THEN /\ Fail(i, StripFailed(p, [cmd |-> "strip", missing |-> tmp]))
                /\ Did(i, <<back>>)
                /\ UNCHANGED <<fs, resolved>>
           ELSE IF separate_debug_symbols /\ asset.is_built
           THEN LET debug_target_path == get_target_debug_path(asset, Read(held, disk, p))
                    debug_name == file_name(debug_target_path)
                IN IF debug_name.kind = "None"
                   THEN /\ Fail(i, StrError("bad path"))
                        /\ Did(i, <<back, [op |-> "elf_gnu_debug_id", path |-> p,
                                           result |-> found]>>)
                        /\ fs' = disk
                        /\ UNCHANGED resolved
                   ELSE LET debug_temp_path == with_file_name(tmp, debug_name.val.name) IN
                        /\ fs' = disk \ {debug_temp_path}
                        /\ Did(i, <<back,
                                    [op |-> "elf_gnu_debug_id", path |-> p,
                                     result |-> found],
                                    [op |-> "remove_file", path |-> debug_temp_path],
                                    [op |-> "objcopy",
                                     args |-> ExtractArgs(compress_debug_symbols),
                                     input |-> p, out |-> debug_temp_path]>>)
                        /\ local' = [local EXCEPT ![i].debug_target = Some(debug_target_path),
                                                  ![i].debug_temp = Some(debug_temp_path)]
                        /\ pc' = [pc EXCEPT ![i] = "extract"]
                        /\ UNCHANGED <<saved_error, resolved>>
           ELSE /\ fs' = disk
                /\ Did(i, <<back, InfoStripped(p)>>)
                /\ resolved' = ReplaceSource(resolved, i, SourcePath(tmp))
                /\ pc' = [pc EXCEPT ![i] = "done"]
                /\ UNCHANGED <<local, saved_error>>
    /\ UNCHANGED <<debug_symbols, target, phase, result, runs, pre>>

\* The extracting objcopy returns; on success the linking objcopy is spawned
\* in the debug file's directory with the relative file name.
ExtractReturn(i) ==
    /\ phase = "running"
    /\ pc[i] = "extract"
    /\ \E outcome \in ToolOutcomes :
        LET p == local[i].path.val
            tmp == local[i].stripped.val
            debug_temp_path == local[i].debug_temp.val
            err == StatusError(outcome)
            relative == file_name(debug_temp_path)
            cwd == parent(debug_temp_path)
            back == ToolReturned("extract", outcome, outcome = "exit_zero")
        IN
        IF err.kind = "Some"
        THEN /\ Fail(i, ToolError(p, err.val, "objcopy", target))
             /\ Did(i, <<back>>)
             /\ UNCHANGED fs
        ELSE IF relative.kind = "None" \/ cwd.kind = "None"
        THEN /\ Fail(i, StrError("bad path"))
             /\ fs' = fs \cup {debug_temp_path}
             /\ Did(i, <<back>>)
        ELSE /\ fs' = fs \cup {debug_temp_path}
             /\ Did(i, <<back,
                         [op |-> "objcopy",
                          args |-> <<"--add-gnu-debuglink">>,
                          cwd |-> cwd.val.dir,
                          relative |-> relative.val.name,
                          file |-> tmp]>>)
             /\ pc' = [pc EXCEPT ![i] = "link"]
             /\ UNCHANGED <<local, saved_error>>
    /\ UNCHANGED <<debug_symbols, target, disk_content, resolved, phase, result, runs, pre>>

\* processed(if compress_debug_symbols { "compress" } else { "separate" }, ..)
DebugActionAlwaysSeparate(compress) == "separate"

DebugAction(compress) == IF compress THEN "compress" ELSE "separate"

\* The linking objcopy returns; on success the debug asset is composed and
\* the asset's source is replaced.
LinkReturn(i) ==
    /\ phase = "running"
    /\ pc[i] = "link"
    /\ \E outcome \in ToolOutcomes :
        LET p == local[i].path.val
            tmp == local[i].stripped.val
            err == StatusError(outcome)
            new_debug_asset ==
                processed(NewAsset(SourcePath(local[i].debug_temp.val),
                                   local[i].debug_target.val, 420, FALSE),
                          DebugAction(compress_debug_symbols), p)
        IN
        IF err.kind = "Some"
        THEN /\ Fail(i, CommandFailed(err.val, "objcopy"))
             /\ Did(i, <<ToolReturned("link", outcome, FALSE)>>)
             /\ UNCHANGED resolved
        ELSE /\ Did(i, <<ToolReturned("link", outcome, FALSE), InfoStripped(p)>>)
             /\ local' = [local EXCEPT ![i].out = Some(new_debug_asset)]
             /\ resolved' = ReplaceSource(resolved, i, SourcePath(tmp))
             /\ pc' = [pc EXCEPT ![i] = "done"]
             /\ UNCHANGED saved_error
    /\ UNCHANGED <<debug_symbols, target, disk_content, fs, phase, result, runs, pre>>

\* Once an error is kept, collect stops handing out items: an asset whose
\* closure has not started may never be processed.
Cancel(i) ==
    /\ phase = "running"
    /\ pc[i] = "ready"
    /\ saved_error.kind = "Some"
    /\ pc' = [pc EXCEPT ![i] = "cancelled"]
    /\ UNCHANGED <<debug_symbols, target, disk_content, resolved, fs, phase, local, events,
                   saved_error, result, runs, pre>>

\* added_debug_assets.into_iter().filter_map(|debug_file| debug_file), in
\* index order
RECURSIVE AddedFrom(_, _, _)
AddedFrom(loc, i, n) ==
    IF i >= n THEN <<>>
    ELSE (IF loc[i].out.kind = "Some" THEN <<loc[i].out.val>> ELSE <<>>)
         \o AddedFrom(loc, i + 1, n)

added_debug_assets_twice ==
    AddedFrom(local, 0, Cardinality(DOMAIN local))
    \o AddedFrom(local, 0, Cardinality(DOMAIN local))

added_debug_assets == AddedFrom(local, 0, Cardinality(DOMAIN local))

Finished(i) == pc[i] \in {"filtered", "done", "failed", "cancelled"}

\* collect::<Result<Vec<_>, _>>()? and the single extend of resolved
Return ==
    /\ phase = "running"
    /\ \A i \in DOMAIN pc : Finished(i)
    /\ phase' = "idle"
    /\ IF saved_error.kind = "Some"
       THEN /\ result' = [kind |-> "Err", err |-> saved_error.val]
            /\ UNCHANGED resolved
       ELSE /\ result' = [kind |-> "Ok"]
            /\ resolved' = resolved \o added_debug_assets
    /\ UNCHANGED <<debug_symbols, target, disk_content, fs, pc, local, events, saved_error,
                   runs, pre>>

Next ==
    \/ Start
    \/ \E i \in DOMAIN pc : WorkerBegin(i)
    \/ \E i \in DOMAIN pc : StripReturn(i)
    \/ \E i \in DOMAIN pc : ExtractReturn(i)
    \/ \E i \in DOMAIN pc : LinkReturn(i)
    \/ \E i \in DOMAIN pc : Cancel(i)
    \/ Return

Spec == Init /\ [][Next]_vars

----------------------------------------------------------------------------
\* The identity reader on its own: one file, holding any of a range of
\* build identifiers, is read once.

IdBytes == {0, 10, 171, 205, 239, 255}

ByteSeqs == UNION { [1 .. n -> IdBytes] : n \in 0 .. MaxIdLen }

IdContents ==
    {ElfNoSection, ElfUnparsable} \cup { ElfBuildId(b) : b \in ByteSeqs }

IdInit ==
    /\ disk_content \in { [p \in {BuiltApp} |-> c] : c \in IdContents }
    /\ fs = {BuiltApp}
    /\ debug_symbols = [kind |-> "Separate", compress |-> FALSE]
    /\ target = None
    /\ resolved = <<>>
    /\ phase = "idle"
    /\ pc = [i \in {} |-> "ready"]
    /\ local = [i \in {} |-> NoLocals]
    /\ events = [i \in {} |-> <<>>]
    /\ saved_error = None
    /\ result = None
    /\ runs = 0
    /\ pre = <<>>

\* elf_gnu_debug_id(path) is called and its answer kept in result
IdRead ==
    /\ phase = "idle"
    /\ phase' = "read"
    /\ result' = elf_gnu_debug_id(ContentOf(BuiltApp))
    /\ UNCHANGED <<debug_symbols, target, resolved, fs, disk_content, pc, local,
                   events, saved_error, runs, pre>>

IdNext == IdRead

IdSpec == IdInit /\ [][IdNext]_vars

----------------------------------------------------------------------------
\* Vocabulary of the properties

Has(seq, x) == \E n \in 1 .. Len(seq) : seq[n] = x

Workers == DOMAIN pc

\* the events of closure i with one of the given operations
EventsOf(i, ops) == { k \in 1 .. Len(events[i]) : events[i][k].op \in ops }

ToolOps == {"strip", "objcopy"}

IsExtract(e) == e.op = "objcopy" /\ Has(e.args, "--only-keep-debug")
IsLink(e) == e.op = "objcopy" /\ Has(e.args, "--add-gnu-debuglink")

\* the temporary files closure i deleted or had a tool write
TempPaths(i) ==
    { events[i][k].path : k \in EventsOf(i, {"remove_file"}) }
    \cup { events[i][k].out : k \in EventsOf(i, {"strip"}) }
    \cup { events[i][k].out : k \in { n \in EventsOf(i, {"objcopy"}) : IsExtract(events[i][n]) } }
    \cup { events[i][k].file : k \in { n \in EventsOf(i, {"objcopy"}) : IsLink(events[i][n]) } }

\* strip_binaries has been called and has returned
Returned == phase = "idle" /\ runs > 0
ReturnedOk == Returned /\ result.kind = "Ok"
ReturnedErr == Returned /\ result.kind = "Err"

\* the assets the call appended to resolved
Appended == SubSeq(resolved, Len(pre) + 1, Len(resolved))

\* the built assets of the call that had a path source when it started
PathWorkers == { i \in Workers : AssetAt(pre, i).source.kind = "Path" }

SameRecord(i) ==
    /\ AssetAt(resolved, i).source = AssetAt(pre, i).source
    /\ AssetAt(resolved, i).processed_from = AssetAt(pre, i).processed_from

----------------------------------------------------------------------------
\* Properties

\* C1: under policy Keep no external tool is invoked for any built asset and
\* every asset's source and provenance are the same after the run as before.
C1_KeepInvokesNothing ==
    debug_symbols.kind = "Keep" =>
        \A i \in Workers :
            /\ EventsOf(i, ToolOps) = {}
            /\ SameRecord(i)

\* C2: the temporary paths (stripped file, debug-info file) that the closures
\* of two different assets delete or write in one run are disjoint.
C2_TempPathsDisjoint ==
    \A i, j \in Workers : i # j => TempPaths(i) \cap TempPaths(j) = {}

\* the number of built assets listed before position pos
BuiltBefore(assets, pos) ==
    Cardinality({ k \in 1 .. (pos - 1) : assets[k].is_built })

\* C3: two different built assets of one run get different stripped temp
\* paths, also with equal file stems: the path is in the output directory,
\* named <stem>.tmp<index>-stripped, the index being the asset's position
\* among the built binaries counted before symlink-only assets are dropped.
C3_StrippedTempPathsDistinct ==
    \A i \in Workers :
        local[i].stripped.kind = "Some" =>
            /\ \A j \in Workers :
                  (j # i /\ local[j].stripped.kind = "Some")
                      => local[j].stripped.val # local[i].stripped.val
            /\ local[i].stripped.val.dir = default_deb_output_dir
            /\ LET nm == local[i].stripped.val.name IN
               /\ SubSeq(nm, 1, Len(nm) - 1) = file_stem(local[i].path.val).val.name
               /\ nm[Len(nm)] =
                    "tmp" \o ToString(BuiltBefore(pre, PosOf(pre, i))) \o "-stripped"

C3_Witness ==
    \E i, j \in Workers :
        /\ i # j
        /\ local[i].stripped.kind = "Some"
        /\ local[j].stripped.kind = "Some"
        /\ file_stem(local[i].path.val) = file_stem(local[j].path.val)

\* the policies under which stripping is asked for
Stripping == debug_symbols.kind \in {"Strip", "Separate"}

\* C4: in every run, a second run over replaced sources included, the path
\* the strip step deletes and then writes differs from the asset's source
\* path at that time. Stated for the runs that are asked to strip.
C4_StripTempDiffersFromSource ==
    Stripping =>
        \A i \in Workers :
            local[i].stripped.kind = "Some" =>
                local[i].stripped.val # local[i].path.val

\* C5: for a built asset with a symlink-only source no tool is invoked, no
\* debug asset is produced, and its source and provenance stay unchanged,
\* under every policy.
C5_SymlinkOnlyUntouched ==
    \A i \in Workers :
        AssetAt(pre, i).source.kind = "Symlink" =>
            /\ events[i] = <<>>
            /\ local[i].out = None
            /\ SameRecord(i)
            /\ \A k \in 1 .. Len(Appended) :
                  Appended[k].target_path # default_debug_target_path(AssetAt(pre, i))

C5_Witness ==
    /\ ReturnedOk
    /\ debug_symbols.kind = "Separate"
    /\ Len(Appended) > 0
    /\ \E i \in Workers : AssetAt(pre, i).source.kind = "Symlink"

\* the debug assets appended for the asset of index i: those whose provenance
\* names its pre-strip path
DebugAssetsOf(i, action) ==
    { k \in 1 .. Len(Appended) :
        Appended[k].processed_from =
            Some([original_path |-> Some(AssetAt(pre, i).source.path),
                  action |-> action]) }

\* C6: a successful run under Separate(compress) appends exactly one debug
\* asset per stripped built asset, with provenance action "compress" when
\* compress is set and "separate" otherwise and the pre-strip path as origin,
\* and the extract invocation carries --compress-debug-sections=zstd exactly
\* when compress is set.
C6_OneDebugAssetPerStripped ==
    (ReturnedOk /\ debug_symbols.kind = "Separate") =>
        /\ Len(Appended) = Cardinality(PathWorkers)
        /\ \A i \in PathWorkers :
            /\ Cardinality(DebugAssetsOf(i,
                    IF debug_symbols.compress THEN "compress" ELSE "separate")) = 1
            /\ Cardinality({ k \in EventsOf(i, {"objcopy"}) : IsExtract(events[i][k]) }) = 1
            /\ \A k \in EventsOf(i, {"objcopy"}) :
                  IsExtract(events[i][k]) =>
                      (Has(events[i][k].args, "--compress-debug-sections=zstd")
                          <=> debug_symbols.compress)

C6_Witness ==
    /\ ReturnedOk
    /\ debug_symbols.kind = "Separate"
    /\ debug_symbols.compress
    /\ Cardinality(PathWorkers) = 2

\* C7: under a policy other than Separate a run appends no debug asset and
\* invokes neither the debug-extraction tool nor the identity reader, with
\* or without a build identifier in the binaries.
C7_NoDebugAssetsUnlessSeparate ==
    debug_symbols.kind # "Separate" =>
        /\ Len(resolved) = Len(pre)
        /\ \A i \in Workers :
            /\ EventsOf(i, {"objcopy", "elf_gnu_debug_id"}) = {}
            /\ local[i].out = None

C7_Witness ==
    /\ ReturnedOk
    /\ debug_symbols.kind = "Strip"
    /\ \E i \in PathWorkers :
        /\ ContentOf(AssetAt(pre, i).source.path).kind = "BuildId"
        /\ EventsOf(i, {"strip"}) # {}

\* C8: when the processing of at least one asset failed, the call returns an
\* error that is the error of one of the failing assets, appends no debug
\* asset, and the assets already completed keep their replaced source.
C8_FailureFailsTheRun ==
    (Returned /\ \E i \in Workers : pc[i] = "failed") =>
        /\ result.kind = "Err"
        /\ \E i \in Workers : pc[i] = "failed" /\ local[i].err = Some(result.err)
        /\ Len(resolved) = Len(pre)
        /\ \A i \in Workers :
              (pc[i] = "done" /\ local[i].stripped.kind = "Some") =>
                  AssetAt(resolved, i).source = SourcePath(local[i].stripped.val)

C8_Witness ==
    /\ ReturnedErr
    /\ \E i, j \in Workers :
        /\ pc[i] = "failed"
        /\ pc[j] = "done"
        /\ local[j].out.kind = "Some"

\* the error of a strip tool that ran and exited non-zero
IsStripExitError(e) ==
    \/ e.kind = "CommandFailed" /\ e.tool = "strip" /\ e.err = IoExitError
    \/ /\ e.kind = "StripFailed"
       /\ {"cmd", "err"} \subseteq DOMAIN e.msg
       /\ e.msg.cmd = "strip"
       /\ e.msg.err = IoExitError

\* C9: when the strip tool exits non-zero for an asset, the error the call
\* returns references that asset's path, with or without a cross target, and
\* with a cross target its message includes the target name. Stated for the
\* runs that are asked to strip.
C9_StripExitErrorNamesPath ==
    (Stripping /\ ReturnedErr /\ IsStripExitError(result.err)) =>
        /\ "path" \in DOMAIN result.err
        /\ \E i \in Workers :
              /\ local[i].err = Some(result.err)
              /\ result.err.path = local[i].path.val
        /\ target.kind = "Some" => result.err.msg.target = target.val.name

\* C10: after a successful run under Strip or Separate every built asset that
\* had a path source has as source the -o output of its strip invocation and
\* as provenance action "strip" with the source path it had before the run.
C10_SourceReplacedByStripped ==
    (ReturnedOk /\ Stripping) =>
        \A i \in PathWorkers :
            /\ \E k \in EventsOf(i, {"strip"}) :
                  AssetAt(resolved, i).source = SourcePath(events[i][k].out)
            /\ AssetAt(resolved, i).processed_from =
                  Some([original_path |-> Some(AssetAt(pre, i).source.path),
                        action |-> "strip"])

C10_Witness ==
    /\ ReturnedOk
    /\ debug_symbols.kind = "Strip"
    /\ PathWorkers # {}

\* the tool returns closure i has seen
ReturnsOf(i, tool) ==
    { k \in EventsOf(i, {"returned"}) : events[i][k].tool = tool }

\* the identity reader's answers to closure i
IdReads(i) == EventsOf(i, {"elf_gnu_debug_id"})

\* the install path with .debug appended, under usr/lib/debug
FallbackPath(asset) ==
    [dir |-> <<"usr", "lib", "debug">> \o asset.target_path.dir,
     name |-> asset.target_path.name \o <<"debug">>]

\* C11: determining the debug path never fails the closure: when the
\* identity reader answers Absent or a parse error, the debug path is the
\* asset's default debug path, a function of its install path alone, so the
\* same in every run.
C11_DebugPathFallsBack ==
    \A i \in Workers : \A k \in IdReads(i) :
        /\ local[i].debug_target.kind = "Some"
        /\ local[i].err # Some(StrError("bad path"))
        /\ (events[i][k].result.kind = "Err" \/ events[i][k].result.val.kind = "None")
              => local[i].debug_target.val = FallbackPath(AssetAt(pre, i))

C11_Witness ==
    /\ runs = 2
    /\ \E i \in Workers : \E k \in IdReads(i) :
        /\ events[i][k].result.kind = "Err"
        /\ local[i].debug_target.kind = "Some"
        /\ pc[i] = "done"

\* two-digit lowercase hexadecimal, written out for the bytes in use
TwoHex ==
    (0 :> "00") @@ (10 :> "0a") @@ (171 :> "ab") @@ (205 :> "cd")
    @@ (239 :> "ef") @@ (255 :> "ff")

RECURSIVE TwoHexOf(_)
TwoHexOf(bytes) ==
    IF bytes = <<>> THEN "" ELSE TwoHex[bytes[1]] \o TwoHexOf(Tail(bytes))

\* C12: for a non-empty build identifier b the identity reader answers
\* usr/lib/debug/.build-id/<hex of b[0]>/<hex of b[1..]>.debug in two-digit
\* lowercase hex ([0xAB, 0xCD, 0xEF] gives .../ab/cdef.debug); for an empty
\* identifier or a missing build-id section it answers Absent.
C12_BuildIdPath ==
    phase = "read" =>
        LET c == disk_content[BuiltApp] IN
        /\ (c.kind = "BuildId" /\ c.bytes # <<>>) =>
              result = [kind |-> "Ok", val |-> Some(
                  [dir |-> <<"usr", "lib", "debug", ".build-id", TwoHex[c.bytes[1]]>>,
                   name |-> <<TwoHexOf(Tail(c.bytes)), "debug">>])]
        /\ (c.kind = "BuildId" /\ c.bytes = <<171, 205, 239>>) =>
              result.val.val = [dir |-> <<"usr", "lib", "debug", ".build-id", "ab">>,
                                name |-> <<"cdef", "debug">>]
        /\ (c.kind = "NoSection" \/ (c.kind = "BuildId" /\ c.bytes = <<>>)) =>
              result = [kind |-> "Ok", val |-> None]

C12_Witness ==
    /\ phase = "read"
    /\ disk_content[BuiltApp] = ElfBuildId(<<10, 0, 255>>)
    /\ result.kind = "Ok"
    /\ result.val.kind = "Some"
    /\ result.val.val.name = <<"00ff", "debug">>

MissingFile == [text |-> "The file doesn't exist"]

\* closure i has failed on a source path that was not on disk
FailedOnMissingSource(i) ==
    /\ pc[i] = "failed"
    /\ local[i].err.kind = "Some"
    /\ local[i].err.val.kind = "StripFailed"
    /\ local[i].err.val.msg = MissingFile

\* closure i starts on a path source that is not on disk
StartsOnMissingSource(i) ==
    /\ phase = "running"
    /\ pc[i] = "ready"
    /\ pc'[i] \notin {"ready", "cancelled"}
    /\ AssetAt(resolved, i).source.kind = "Path"
    /\ AssetAt(resolved, i).source.path \notin fs

C13_Step ==
    \A i \in Workers :
        StartsOnMissingSource(i) =>
            /\ pc'[i] = "failed"
            /\ local'[i].err.kind = "Some"
            /\ local'[i].err.val.kind = "StripFailed"
            /\ local'[i].err.val.path = AssetAt(resolved, i).source.path
            /\ local'[i].err.val.msg = MissingFile
            /\ events'[i] = <<>>
            /\ fs' = fs

\* C13: a closure that starts on a path source missing from disk fails with
\* StripFailed carrying that path and the "file doesn't exist" message; it
\* invokes neither strip nor objcopy and deletes no temp file, then or later.
C13_MissingSourceFails ==
    /\ [][C13_Step]_vars
    /\ [](\A i \in Workers : FailedOnMissingSource(i) => events[i] = <<>>)

C13_Witness ==
    \E i \in Workers :
        /\ FailedOnMissingSource(i)
        /\ local[i].err.val.path = Gone
        /\ AssetAt(resolved, i).source = SourcePath(Gone)
        /\ events[i] = <<>>
        /\ ReturnedErr

\* closure i has seen the tool come back with exit status zero before its
\* event k
OkBefore(i, tool, k) ==
    \E j \in ReturnsOf(i, tool) : j < k /\ events[i][j].outcome = "exit_zero"

ExtractsOf(i) == { k \in EventsOf(i, {"objcopy"}) : IsExtract(events[i][k]) }
LinksOf(i) == { k \in EventsOf(i, {"objcopy"}) : IsLink(events[i][k]) }

\* the record of closure i's asset changes in this step
RecordChanges(i) ==
    \/ AssetAt(resolved', i).source # AssetAt(resolved, i).source
    \/ AssetAt(resolved', i).processed_from # AssetAt(resolved, i).processed_from

\* what this step adds to closure i's events comes after what it needs
C14_Step ==
    \A i \in Workers :
        phase = "running" =>
            LET ev == events'[i]
                OkAt(j, tool) ==
                    /\ ev[j].op = "returned"
                    /\ ev[j].tool = tool
                    /\ ev[j].outcome = "exit_zero"
            IN
            /\ \A k \in (Len(events[i]) + 1) .. Len(ev) :
                  /\ (ev[k].op = "elf_gnu_debug_id" \/ IsExtract(ev[k])) =>
                        \E j \in 1 .. (k - 1) :
                            /\ OkAt(j, "strip")
                            /\ ev[j].wrote
                            /\ \E n \in 1 .. (j - 1) : ev[n].op = "strip"
                  /\ IsExtract(ev[k]) =>
                        \E j \in 1 .. (k - 1) : ev[j].op = "elf_gnu_debug_id"
                  /\ IsLink(ev[k]) =>
                        \E j \in 1 .. (k - 1) :
                            /\ OkAt(j, "extract")
                            /\ \E n \in 1 .. (j - 1) : IsExtract(ev[n])
            /\ RecordChanges(i) =>
                  /\ \E j \in 1 .. Len(ev) : OkAt(j, "strip")
                  /\ debug_symbols.kind = "Separate" =>
                        /\ \E j \in 1 .. Len(ev) : OkAt(j, "extract")
                        /\ \E j \in 1 .. Len(ev) : OkAt(j, "link")
                        /\ \E j \in 1 .. Len(ev) : IsLink(ev[j])

\* C14: within one closure the steps come in the order strip, debug path,
\* extract, link: the debug path is read and the extract spawned only after
\* strip came back with exit status zero and its output is on disk, the
\* link is spawned only after the extract came back with exit status zero,
\* and the source is replaced only after every step of the policy did.
C14_StepsInOrder == [][C14_Step]_vars

C14_Witness ==
    \E i \in Workers :
        /\ debug_symbols.kind = "Separate"
        /\ ~SameRecord(i)
        /\ LinksOf(i) # {}
        /\ OkBefore(i, "link", Len(events[i]) + 1)
        /\ ReturnedOk

\* the built assets of the call whose source is neither a path nor a symlink
DataWorkers == { i \in Workers : AssetAt(pre, i).source.kind = "Data" }

Warnings(i) == EventsOf(i, {"warning"})
Infos(i) == EventsOf(i, {"info"})

\* C15: a built asset with a non-path source is skipped without an error:
\* once its closure has run there is exactly one warning for it, no tool
\* invocation, no debug asset, and its source and provenance are unchanged;
\* and every asset stripped successfully has exactly one "Stripped"
\* notification, naming its path, while no other asset has any.
C15_SkipWarnsStripInforms ==
    \A i \in Workers :
        LET before == AssetAt(pre, i)
            ev == events[i]
        IN
        /\ before.source.kind = "Data" =>
              /\ pc[i] \in {"ready", "cancelled", "done"}
              /\ local[i].err = None
              /\ local[i].out = None
              /\ SameRecord(i)
              /\ Len(ev) = (IF pc[i] = "done" THEN 1 ELSE 0)
              /\ \A k \in 1 .. Len(ev) : ev[k].op = "warning"
        /\ before.source.kind = "Path" =>
              /\ pc[i] = "done" => ev # <<>>
              /\ \A k \in 1 .. Len(ev) :
                    /\ ev[k].op # "warning"
                    /\ IF k = Len(ev) /\ pc[i] = "done"
                       THEN /\ ev[k].op = "info"
                            /\ ev[k].text = "Stripped"
                            /\ ev[k].path = before.source.path
                       ELSE ev[k].op # "info"

C15_Witness ==
    /\ ReturnedOk
    /\ Stripping
    /\ \E i \in DataWorkers : pc[i] = "done" /\ Cardinality(Warnings(i)) = 1
    /\ \E i \in PathWorkers : pc[i] = "done" /\ Cardinality(Infos(i)) = 1

\* strip came back to closure i with exit status zero and no output on disk
StripLeftNoOutput(i) ==
    \E j \in ReturnsOf(i, "strip") :
        events[i][j].outcome = "exit_zero" /\ ~events[i][j].wrote

\* C16: when strip exits with success and its output file is not on disk,
\* the closure fails with StripFailed carrying the asset's original path,
\* the source is not replaced, and neither objcopy invocation is made.
C16_MissingOutputFails ==
    \A i \in Workers :
        StripLeftNoOutput(i) =>
            /\ pc[i] = "failed"
            /\ local[i].err.kind = "Some"
            /\ local[i].err.val.kind = "StripFailed"
            /\ local[i].err.val.path = AssetAt(pre, i).source.path
            /\ SameRecord(i)
            /\ EventsOf(i, {"objcopy", "elf_gnu_debug_id", "info"}) = {}
            /\ local[i].out = None

C16_Witness ==
    /\ ReturnedErr
    /\ debug_symbols.kind = "Separate"
    /\ \E i \in Workers :
          /\ StripLeftNoOutput(i)
          /\ local[i].err.val.kind = "StripFailed"
          /\ AssetAt(pre, i).source.path = BuiltApp

\* the tool named `tool` came back to closure i with the given outcome, and
\* the closure failed on it
FailedOn(i, tool, outcome) ==
    /\ pc[i] = "failed"
    /\ events[i] # <<>>
    /\ events[i][Len(events[i])] \in
          { ToolReturned(tool, outcome, w) : w \in BOOLEAN }

\* C17: a tool that could not be started and a tool that ran and exited
\* non-zero give errors of different kinds, for strip and for both objcopy
\* invocations.
C17_SpawnAndExitErrorsDiffer ==
    Stripping =>
        \A i, j \in Workers : \A tool \in {"strip", "extract", "link"} :
            (FailedOn(i, tool, "spawn_error") /\ FailedOn(j, tool, "exit_nonzero"))
                => local[i].err.val.kind # local[j].err.val.kind

\* the closures of the call that produced a debug asset
Producers == { i \in Workers : local[i].out.kind = "Some" }

\* resolved grows only in the step that ends the call, with every closure
\* finished and no error kept
C18_Step ==
    Len(resolved') # Len(resolved) =>
        /\ phase = "running"
        /\ phase' = "idle"
        /\ saved_error = None
        /\ \A i \in Workers : pc[i] \in {"filtered", "done"}
        /\ Len(resolved) = Len(pre)

\* C18: resolved is appended to once per successful call, after every
\* closure has finished; no asset that was there is removed or moved, and
\* after the call resolved is as long as before it plus the number of debug
\* assets produced.
C18_AppendedOnceAtTheEnd ==
    /\ [][C18_Step]_vars
    /\ [](phase = "running" => Len(resolved) = Len(pre))
    /\ [](ReturnedOk => Len(resolved) = Len(pre) + Cardinality(Producers))
    /\ [](ReturnedErr => Len(resolved) = Len(pre))
    /\ [](\A k \in 1 .. Len(pre) :
              /\ k <= Len(resolved)
              /\ resolved[k].target_path = pre[k].target_path
              /\ resolved[k].is_built = pre[k].is_built)

C18_Witness ==
    /\ ReturnedOk
    /\ Cardinality(Producers) = 2
    /\ Len(resolved) = Len(pre) + 2
    /\ Len(pre) = 2

\* the debug install path closure i computed: the identity reader's path
\* when it gave one, else the fallback
ComputedDebugPath(i) ==
    LET read == events[i][CHOOSE k \in IdReads(i) : TRUE].result IN
    IF read.kind = "Ok" /\ read.val.kind = "Some"
    THEN read.val.val
    ELSE FallbackPath(AssetAt(pre, i))

\* C19: under Separate the debug temp file of a stripped built asset lies in
\* the directory of its stripped temp file and is named as the file-name
\* component of the computed debug install path; the link runs in that
\* directory and is given only that file name; the debug asset has the debug
\* temp file as source, the computed debug path as target, mode 0644 and is
\* not built.
C19_DebugTempAndAsset ==
    debug_symbols.kind = "Separate" =>
        \A i \in Workers :
            local[i].debug_temp.kind = "Some" =>
                LET ev == events[i]
                    computed == ComputedDebugPath(i)
                    dir == local[i].stripped.val.dir
                    out == local[i].out.val
                IN
                /\ local[i].debug_target.val = computed
                /\ local[i].debug_temp.val.dir = dir
                /\ local[i].debug_temp.val.name = computed.name
                /\ \A k \in 1 .. Len(ev) :
                      /\ IsExtract(ev[k]) => ev[k].out = local[i].debug_temp.val
                      /\ IsLink(ev[k]) =>
                            /\ ev[k].cwd = dir
                            /\ ev[k].relative = computed.name
                            /\ ev[k].file = local[i].stripped.val
                /\ pc[i] = "done" =>
                      /\ local[i].out.kind = "Some"
                      /\ out.source =
                            [kind |-> "Path",
                             path |-> [dir |-> dir, name |-> computed.name]]
                      /\ out.target_path = computed
                      /\ out.chmod = 420
                      /\ ~out.is_built

C19_Witness ==
    /\ ReturnedOk
    /\ debug_symbols.kind = "Separate"
    /\ \E i \in PathWorkers :
          /\ pc[i] = "done"
          /\ LinksOf(i) # {}
          /\ local[i].stripped.val = MkPath(<<"target", "debian">>, <<"app", "tmp0-stripped">>)
          /\ local[i].debug_temp.val = MkPath(<<"target", "debian">>, <<"cdef", "debug">>)
          /\ local[i].out.val.target_path =
                MkPath(<<"usr", "lib", "debug", ".build-id", "ab">>, <<"cdef", "debug">>)

\* C20: a closure that fails at any step (missing input, bad path, strip,
\* missing output, extract, link) leaves its asset's record as it was before
\* the call: same source, same provenance, and no debug asset.
C20_FailedWorkerKeepsRecord ==
    \A i \in Workers :
        LET ev == events[i] IN
        IF pc[i] = "failed"
        THEN /\ SameRecord(i)
             /\ local[i].out = None
             /\ \A k \in 1 .. Len(ev) : ev[k].op # "info"
        ELSE \A k \in 1 .. Len(ev) :
                ev[k].op = "returned" =>
                    /\ ev[k].outcome = "exit_zero"
                    /\ ev[k].tool = "strip" => ev[k].wrote

C20_Witness ==
    /\ ReturnedErr
    /\ debug_symbols.kind = "Separate"
    /\ \E i, j \in Workers :
          /\ FailedOn(i, "link", "exit_nonzero")
          /\ SameRecord(i)
          /\ pc[j] = "done"
          /\ ~SameRecord(j)

====
